---- MODULE Spec2Model ----
(***************************************************************************)
(* A model of the pagegraph graph store (src/src/graph.rs): the identifier *)
(* types (FrameId, GraphItemId, NodeId, EdgeId), the PageGraph store with   *)
(* its descending edge-id counter, and the directional traversal queries.  *)
(*                                                                         *)
(* Scaling.  usize is modelled UsizeBits wide (usize::MAX = 2^UsizeBits-1) *)
(* and a FrameId has HexLen hexadecimal digits (the code: 32 digits of a   *)
(* u128), so that wrap-around and every digit position are reachable.      *)
(***************************************************************************)
EXTENDS Integers, Sequences, FiniteSets, TLC

----------------------------------------------------------------------------
(* Bounds of the model *)

\* width of usize in bits (the code: the target's pointer width)
UsizeBits == 2
\* number of hexadecimal digits of a FrameId (the code: 32)
HexLen == 2
\* most edge ids the adjacency structure of an initial store lists in all
MaxListed == 2
\* most inserts into the id-keyed mapping of SpecIds
MaxInserts == 3

----------------------------------------------------------------------------
(* Generic helpers *)

None == <<>>
Some(x) == <<x>>

SeqsUpTo(S, n) == UNION {[1..k -> S] : k \in 0..n}

SeqMap(s, F(_)) == [i \in 1..Len(s) |-> F(s[i])]

Range(f) == {f[x] : x \in DOMAIN f}

RECURSIVE Flatten(_)
Flatten(ss) == IF ss = <<>> THEN <<>> ELSE Head(ss) \o Flatten(Tail(ss))

RECURSIVE Pow(_, _)
Pow(b, e) == IF e = 0 THEN 1 ELSE b * Pow(b, e - 1)

----------------------------------------------------------------------------
(* FrameId: parsing and formatting                                         *)
(* A string is a sequence of characters; a character is a one-character    *)
(* string, except "e'" which stands for a two-byte UTF-8 character.        *)

UpperDigits == <<"0", "1", "2", "3", "4", "5", "6", "7", "8", "9", "A", "B", "C", "D", "E", "F">>
LowerDigits == <<"0", "1", "2", "3", "4", "5", "6", "7", "8", "9", "a", "b", "c", "d", "e", "f">>

\* the largest FrameId payload: u128::MAX, here 16^HexLen - 1
U128Max == Pow(16, HexLen) - 1

FrameIdValues == 0..U128Max

\* str::len counts bytes
ByteLen1(c) == IF c = "e'" THEN 2 ELSE 1

RECURSIVE str_len(_)
str_len(v) == IF v = <<>> THEN 0 ELSE ByteLen1(Head(v)) + str_len(Tail(v))

\* char::to_digit(16): the digit's value, -1 for a character that is none
to_digit(c) ==
    IF \E i \in 1..16 : UpperDigits[i] = c
    THEN (CHOOSE i \in 1..16 : UpperDigits[i] = c) - 1
    ELSE IF \E i \in 1..16 : LowerDigits[i] = c
         THEN (CHOOSE i \in 1..16 : LowerDigits[i] = c) - 1
         ELSE -1

\* the digit loop of u128::from_str_radix: -1 on an invalid digit or overflow
RECURSIVE parse_digits(_, _)
parse_digits(ds, acc) ==
    IF ds = <<>> THEN acc
    ELSE IF to_digit(Head(ds)) < 0 THEN -1
    ELSE IF acc * 16 + to_digit(Head(ds)) > U128Max THEN -1
    ELSE parse_digits(Tail(ds), acc * 16 + to_digit(Head(ds)))

\* u128::from_str_radix(v, 16): an unsigned type takes an optional leading
\* "+" and no "-"; a lone sign and the empty string are errors
from_str_radix(v) ==
    IF v = <<>> THEN -1
    ELSE IF Head(v) \in {"+", "-"} /\ Tail(v) = <<>> THEN -1
    ELSE IF Head(v) = "+" THEN parse_digits(Tail(v), 0)
    ELSE parse_digits(v, 0)

\* impl From<&str> for FrameId
FrameId_from(v) ==
    IF str_len(v) # HexLen THEN [aborted |-> TRUE, value |-> None]
    ELSE IF from_str_radix(v) < 0 THEN [aborted |-> TRUE, value |-> None]
    ELSE [aborted |-> FALSE, value |-> Some(from_str_radix(v))]

\* {:X} of an unsigned integer: its upper-case digits, no leading zeros
RECURSIVE UpperHex(_)
UpperHex(n) ==
    IF n < 16 THEN <<UpperDigits[n + 1]>>
    ELSE Append(UpperHex(n \div 16), UpperDigits[(n % 16) + 1])

\* {:0>width}: fill with "0" on the left up to the width, never truncate
RECURSIVE PadLeft(_, _)
PadLeft(s, width) == IF Len(s) >= width THEN s ELSE PadLeft(<<"0">> \o s, width)

\* a mutant of FrameId_fmt: no zero padding
FrameId_fmt_unpadded(f) == UpperHex(f)

\* impl Display for FrameId
FrameId_fmt(f) == PadLeft(UpperHex(f), HexLen)

IsHexDigit(c) == \E i \in 1..16 : UpperDigits[i] = c \/ LowerDigits[i] = c

IsUpperHexDigit(c) == \E i \in 1..16 : UpperDigits[i] = c

to_ascii_uppercase(c) ==
    IF \E i \in 1..16 : LowerDigits[i] = c
    THEN UpperDigits[CHOOSE i \in 1..16 : LowerDigits[i] = c]
    ELSE c

to_ascii_lowercase(c) ==
    IF \E i \in 1..16 : UpperDigits[i] = c
    THEN LowerDigits[CHOOSE i \in 1..16 : UpperDigits[i] = c]
    ELSE c

\* the characters the input strings are drawn from
InputChars == {"0", "9", "a", "A", "f", "F", "g", "+", "-", "e'"}

InputStrings == SeqsUpTo(InputChars, HexLen + 1)

----------------------------------------------------------------------------
(* GraphItemId, NodeId, EdgeId                                             *)

\* the frames the ids of the model are scoped to
Frames == {1, 2}

\* impl From<usize> for GraphItemId
GraphItemId_from(v) == [id |-> v, frame_id |-> None]

\* a mutant of GraphItemId_copy_for_frame_id: the frame scope is not attached
GraphItemId_copy_keeps_scope(self, frame_id) ==
    [id |-> self.id, frame_id |-> self.frame_id]

\* GraphItemId::copy_for_frame_id(&self, frame_id) -> Self
GraphItemId_copy_for_frame_id(self, frame_id) ==
    [id |-> self.id, frame_id |-> Some(frame_id)]

\* a mutant of GraphItemId_eq: the numeric id alone decides
GraphItemId_eq_id_only(a, b) == a.id = b.id

\* #[derive(PartialEq, Eq)] on GraphItemId: both fields must match
GraphItemId_eq(a, b) == a.id = b.id /\ a.frame_id = b.frame_id

\* impl From<usize> for NodeId
NodeId_from(v) == [tag |-> "NodeId", item |-> GraphItemId_from(v)]

\* NodeId::copy_for_frame_id
NodeId_copy_for_frame_id(self, frame_id) ==
    [tag |-> "NodeId", item |-> GraphItemId_copy_for_frame_id(self.item, frame_id)]

\* impl From<usize> for EdgeId
EdgeId_from(v) == [tag |-> "EdgeId", item |-> GraphItemId_from(v)]

\* EdgeId::copy_for_frame_id
EdgeId_copy_for_frame_id(self, frame_id) ==
    [tag |-> "EdgeId", item |-> GraphItemId_copy_for_frame_id(self.item, frame_id)]

\* #[derive(PartialEq, Eq)] on the wrappers NodeId(GraphItemId), EdgeId(GraphItemId);
\* the two types are distinct, an id is only ever compared with one of its own type
Id_eq(a, b) == a.tag = b.tag /\ GraphItemId_eq(a.item, b.item)

\* HasFrameId::get_frame_id for NodeId and EdgeId
get_frame_id(x) == x.item.frame_id

\* is_same_frame_context
is_same_frame_context(a, b) == get_frame_id(a) = get_frame_id(b)

\* HashMap::insert of a key: a key equal to one present replaces nothing in the key set
HashMap_insert_key(keys, k) ==
    IF \E old \in keys : Id_eq(old, k) THEN keys ELSE keys \cup {k}

\* HashMap::contains_key
contains_key(keys, k) == \E old \in keys : Id_eq(old, k)

----------------------------------------------------------------------------
(* The PageGraph store                                                     *)
(* A Node is modelled by its id and an Edge by its id, source and target:  *)
(* timestamps and the node/edge kinds are opaque to every operation here.  *)
(* The adjacency structure (petgraph's DiGraphMap<NodeId, Vec<EdgeId>>)    *)
(* holds at most one entry per ordered node pair, in insertion order.      *)

VARIABLES
    desc,             \* PageGraph.desc
    nodes,            \* PageGraph.nodes: NodeId -> Node
    edges,            \* PageGraph.edges: EdgeId -> Edge
    graph,            \* PageGraph.graph: sequence of [a, b, w], w the Vec<EdgeId> of a -> b
    next_node_id,     \* PageGraph.next_node_id
    next_edge_id,     \* PageGraph.next_edge_id
    built,            \* what PageGraph::new was given (a history variable)
    overflow_checks,  \* whether the build panics on integer overflow (debug) or wraps (release)
    last,             \* the last query: its operation, argument, items yielded, whether it aborted
    calls,            \* the new_edge_id calls made, in order: for each the counter
                      \* before it (the candidate id's number), its outcome, the id returned
    finput,           \* FrameId: the string or value the operation is applied to
    fresult,          \* FrameId: the last operation and its result
    idkeys,           \* ids: the keys of an id-keyed mapping
    idlog,            \* ids: every id inserted into that mapping
    idheld,           \* ids: the id copy_for_frame_id is called on
    idcopy            \* ids: the last copy_for_frame_id result

storeVars == <<desc, nodes, graph, next_node_id, built>>
allocVars == <<next_edge_id, calls>>
frameVars == <<finput, fresult>>
idVars == <<idkeys, idlog, idheld, idcopy>>
vars == <<desc, nodes, edges, graph, next_node_id, next_edge_id, built, overflow_checks,
          last, calls, finput, fresult, idkeys, idlog, idheld, idcopy>>

\* usize::MAX
UsizeMax == Pow(2, UsizeBits) - 1

\* the node ids and edge ids of the initial stores
NodeU == {NodeId_from(1), NodeId_from(2)}
EdgeU == {EdgeId_from(UsizeMax), EdgeId_from(UsizeMax - 1)}

\* struct Node, struct Edge
Node(id) == [id |-> id]
Edge(id, source, target) == [id |-> id, source |-> source, target |-> target]

\* HashMap::get on a mapping the model holds as a function: None, or Some(value)
HashMap_get(m, k) ==
    IF contains_key(DOMAIN m, k)
    THEN Some(m[CHOOSE old \in DOMAIN m : Id_eq(old, k)])
    ELSE None

\* petgraph: GraphMap::edges_directed(n, direction), the entries leaving or entering n
edges_directed(g, n, direction) ==
    SelectSeq(g, LAMBDA e : IF direction = "Outgoing" THEN e.a = n ELSE e.b = n)

\* petgraph: GraphMap::neighbors_directed(n, direction), one id per entry
neighbors_directed(g, n, direction) ==
    SeqMap(edges_directed(g, n, direction),
           LAMBDA e : IF direction = "Outgoing" THEN e.b ELSE e.a)

\* .map(|id| m.get(&id).unwrap()) consumed to its end: the values yielded before the
\* first id that is no key, and whether the unwrap aborted there
RECURSIVE map_get_unwrap(_, _)
map_get_unwrap(ids, m) ==
    IF ids = <<>> THEN [out |-> <<>>, aborted |-> FALSE]
    ELSE IF HashMap_get(m, Head(ids)) = None THEN [out |-> <<>>, aborted |-> TRUE]
    ELSE LET rest == map_get_unwrap(Tail(ids), m)
         IN  [out |-> HashMap_get(m, Head(ids)) \o rest.out, aborted |-> rest.aborted]

\* a mutant of edges_iter_directed: only the first edge id of each entry
edges_iter_directed_first_only(g, es, node, direction) ==
    map_get_unwrap(
        Flatten(SeqMap(edges_directed(g, node.id, direction),
                       LAMBDA e : IF e.w = <<>> THEN <<>> ELSE <<Head(e.w)>>)), es)

\* a mutant of edges_iter_directed: the direction is ignored
edges_iter_directed_any_dir(g, es, node, direction) ==
    map_get_unwrap(
        Flatten(SeqMap(edges_directed(g, node.id, "Outgoing"), LAMBDA e : e.w)), es)

\* a mutant of edges_iter_directed: an id that is no key is skipped (filter_map)
edges_iter_directed_skip(g, es, node, direction) ==
    [out |-> SeqMap(SelectSeq(Flatten(SeqMap(edges_directed(g, node.id, direction),
                                             LAMBDA e : e.w)),
                              LAMBDA id : contains_key(DOMAIN es, id)),
                    LAMBDA id : es[id]),
     aborted |-> FALSE]

\* PageGraph::edges_iter_directed
edges_iter_directed(g, es, node, direction) ==
    map_get_unwrap(
        Flatten(SeqMap(edges_directed(g, node.id, direction), LAMBDA e : e.w)), es)

\* PageGraph::nodes_iter_directed
nodes_iter_directed(g, ns, node, direction) ==
    map_get_unwrap(neighbors_directed(g, node.id, direction), ns)

\* self.nodes.get(&id).unwrap_or_else(|| panic!(..)) of source_node and target_node
endpoint_node(ns, id) ==
    [out |-> HashMap_get(ns, id), aborted |-> HashMap_get(ns, id) = None]

\* PageGraph::source_node
source_node(ns, edge) == endpoint_node(ns, edge.source)

\* PageGraph::target_node
target_node(ns, edge) == endpoint_node(ns, edge.target)

----------------------------------------------------------------------------
(* new_edge_id                                                             *)

\* most new_edge_id calls of one behaviour: enough to pass the counter's wrap-around
MaxCalls == UsizeMax + 3

\* usize subtraction without overflow checks
wrapping_sub(a, b) == (a - b) % (UsizeMax + 1)

\* a mutant of new_edge_id: the id allocated is also inserted into the edge mapping
new_edge_id_inserts(counter, es, checks) ==
    IF counter = 0 /\ checks
    THEN [next |-> counter, outcome |-> "overflow", id |-> None, edges |-> es]
    ELSE IF contains_key(DOMAIN es, EdgeId_from(counter))
    THEN [next |-> wrapping_sub(counter, 1), outcome |-> "collision", id |-> None, edges |-> es]
    ELSE [next |-> wrapping_sub(counter, 1), outcome |-> "returned",
          id |-> Some(EdgeId_from(counter)),
          edges |-> [k \in DOMAIN es \cup {EdgeId_from(counter)} |->
                       IF k \in DOMAIN es THEN es[k]
                       ELSE Edge(k, NodeId_from(1), NodeId_from(1))]]

\* a mutant of new_edge_id: the collision is checked before the counter moves
new_edge_id_check_first(counter, es, checks) ==
    IF contains_key(DOMAIN es, EdgeId_from(counter))
    THEN [next |-> counter, outcome |-> "collision", id |-> None, edges |-> es]
    ELSE IF counter = 0 /\ checks
    THEN [next |-> counter, outcome |-> "overflow", id |-> None, edges |-> es]
    ELSE [next |-> wrapping_sub(counter, 1), outcome |-> "returned",
          id |-> Some(EdgeId_from(counter)), edges |-> es]

\* a mutant of new_edge_id: no assertion
new_edge_id_no_assert(counter, es, checks) ==
    IF counter = 0 /\ checks
    THEN [next |-> counter, outcome |-> "overflow", id |-> None, edges |-> es]
    ELSE [next |-> wrapping_sub(counter, 1), outcome |-> "returned",
          id |-> Some(EdgeId_from(counter)), edges |-> es]

\* a mutant of new_edge_id: the decremented value is returned (replace_with's result
\* taken for the new value instead of the old one)
new_edge_id_returns_new(counter, es, checks) ==
    IF counter = 0 /\ checks
    THEN [next |-> counter, outcome |-> "overflow", id |-> None, edges |-> es]
    ELSE IF contains_key(DOMAIN es, EdgeId_from(wrapping_sub(counter, 1)))
    THEN [next |-> wrapping_sub(counter, 1), outcome |-> "collision", id |-> None, edges |-> es]
    ELSE [next |-> wrapping_sub(counter, 1), outcome |-> "returned",
          id |-> Some(EdgeId_from(wrapping_sub(counter, 1))), edges |-> es]

\* PageGraph::new_edge_id on a store whose counter is `counter` and edge mapping `es`,
\* in a build with or without overflow checks: the counter after the call, how the call
\* ended ("returned", "collision": the assertion failed, "overflow": `*id - 1` panicked
\* at 0), the id returned, and the edge mapping after the call.
\* replace_with stores *id - 1 and hands back the old value; the assertion comes after.
new_edge_id(counter, es, checks) ==
    IF counter = 0 /\ checks
    THEN [next |-> counter, outcome |-> "overflow", id |-> None, edges |-> es]
    ELSE IF contains_key(DOMAIN es, EdgeId_from(counter))
    THEN [next |-> wrapping_sub(counter, 1), outcome |-> "collision", id |-> None, edges |-> es]
    ELSE [next |-> wrapping_sub(counter, 1), outcome |-> "returned",
          id |-> Some(EdgeId_from(counter)), edges |-> es]

----------------------------------------------------------------------------
(* Operations of the store *)

Directions == {"Outgoing", "Incoming"}

\* the Node values a query is called with
NodeArgs == {Node(id) : id \in NodeU}

Query(op, arg, r) ==
    /\ last' = [op |-> op, arg |-> arg, out |-> r.out, aborted |-> r.aborted]
    /\ UNCHANGED <<storeVars, edges, allocVars, overflow_checks, frameVars, idVars>>

OutgoingEdges ==
    \E n \in NodeArgs :
        Query("outgoing_edges", n, edges_iter_directed(graph, edges, n, "Outgoing"))

IncomingEdges ==
    \E n \in NodeArgs :
        Query("incoming_edges", n, edges_iter_directed(graph, edges, n, "Incoming"))

OutgoingNeighbors ==
    \E n \in NodeArgs :
        Query("outgoing_neighbors", n, nodes_iter_directed(graph, nodes, n, "Outgoing"))

IncomingNeighbors ==
    \E n \in NodeArgs :
        Query("incoming_neighbors", n, nodes_iter_directed(graph, nodes, n, "Incoming"))

SourceNode ==
    \E e \in Range(edges) : Query("source_node", e, source_node(nodes, e))

TargetNode ==
    \E e \in Range(edges) : Query("target_node", e, target_node(nodes, e))

NewEdgeId ==
    /\ Len(calls) < MaxCalls
    /\ LET r == new_edge_id(next_edge_id, edges, overflow_checks)
       IN  /\ next_edge_id' = r.next
           /\ edges' = r.edges
           /\ calls' = Append(calls, [before |-> next_edge_id, outcome |-> r.outcome,
                                      id |-> r.id])
    /\ UNCHANGED <<storeVars, overflow_checks, last, frameVars, idVars>>

----------------------------------------------------------------------------
(* Initial stores: what PageGraph::new is given *)

Descriptor ==
    [version |-> "0.1", about |-> "", url |-> "https://example/", is_root |-> TRUE,
     frame_id |-> 1, time |-> [start |-> 0, end |-> 1]]

NodeMaps == {[k \in K |-> Node(k)] : K \in SUBSET NodeU}

EdgeMapsOver(E) ==
    UNION {{[k \in K |-> Edge(k, st[k][1], st[k][2])] : st \in [K -> NodeU \X NodeU]} :
           K \in SUBSET E}

AdjEntries == [a : NodeU, b : NodeU, w : SeqsUpTo(EdgeU, MaxListed)]

\* most entries of an initial adjacency structure
MaxAdj == Cardinality(NodeU)

\* adjacency structures of at most n entries, no ordered pair twice, listing at most
\* MaxListed edge ids in all
Graphs(n) ==
    {g \in SeqsUpTo(AdjEntries, n) :
        /\ \A i, j \in 1..Len(g) : i # j => <<g[i].a, g[i].b>> # <<g[j].a, g[j].b>>
        /\ Len(Flatten(SeqMap(g, LAMBDA e : e.w))) <= MaxListed}

IdleFrame == finput = [kind |-> "none"] /\ fresult = [op |-> "none"]

IdleIds == idkeys = {} /\ idlog = {} /\ idheld = NodeId_from(1) /\ idcopy = None

\* PageGraph::new: the four arguments are stored as given, both counters start at usize::MAX
PageGraph_new(d, es, ns, g) ==
    /\ desc = d
    /\ edges = es
    /\ nodes = ns
    /\ graph = g
    /\ next_edge_id = UsizeMax
    /\ next_node_id = UsizeMax
    /\ built = [desc |-> d, edges |-> es, nodes |-> ns, graph |-> g]

NoCallYet ==
    /\ last = [op |-> "none"]
    /\ calls = <<>>

----------------------------------------------------------------------------
(* Operations on FrameIds and ids *)

FrameIdFrom ==
    /\ finput.kind = "str"
    /\ fresult' = [op |-> "from", arg |-> finput.v,
                   aborted |-> FrameId_from(finput.v).aborted,
                   value |-> FrameId_from(finput.v).value]
    /\ UNCHANGED <<storeVars, edges, allocVars, overflow_checks, last, finput, idVars>>

FrameIdDisplay ==
    /\ finput.kind = "id"
    /\ fresult' = [op |-> "fmt", arg |-> finput.v, out |-> FrameId_fmt(finput.v)]
    /\ UNCHANGED <<storeVars, edges, allocVars, overflow_checks, last, finput, idVars>>

\* FrameId::from(&format!("{}", f)), the formatted string as it is or lower-cased
FrameIdReparse ==
    /\ fresult.op = "fmt"
    /\ \E v \in {fresult.out, SeqMap(fresult.out, to_ascii_lowercase)} :
          fresult' = [op |-> "reparse", arg |-> v,
                      aborted |-> FrameId_from(v).aborted,
                      value |-> FrameId_from(v).value]
    /\ UNCHANGED <<storeVars, edges, allocVars, overflow_checks, last, finput, idVars>>

\* the ids of the id operations: both wrappers, two numeric ids, every frame scope
IdItems == [id : {1, 2}, frame_id : {None} \cup {Some(f) : f \in Frames}]
IdU == [tag : {"NodeId", "EdgeId"}, item : IdItems]

\* an insert into a mapping keyed by ids of idheld's type
InsertKey ==
    /\ Cardinality(idlog) < MaxInserts
    /\ \E k \in IdU :
          /\ k.tag = idheld.tag
          /\ idkeys' = HashMap_insert_key(idkeys, k)
          /\ idlog' = idlog \cup {k}
    /\ UNCHANGED <<storeVars, edges, allocVars, overflow_checks, last, frameVars,
                   idheld, idcopy>>

\* copy_for_frame_id takes &self: the receiver cannot change
CopyForFrameId ==
    /\ \E f \in Frames :
          idcopy' = Some([of |-> idheld, frame |-> f,
                          id |-> IF idheld.tag = "NodeId"
                                 THEN NodeId_copy_for_frame_id(idheld, f)
                                 ELSE EdgeId_copy_for_frame_id(idheld, f)])
    /\ UNCHANGED <<storeVars, edges, allocVars, overflow_checks, last, frameVars,
                   idkeys, idlog, idheld>>

----------------------------------------------------------------------------
(* Specifications *)

\* the store with every operation, over the initial stores of at most one adjacency
\* entry whose edges all run from node 1 to node 2
Init ==
    /\ \E K \in SUBSET EdgeU, ns \in NodeMaps, g \in Graphs(1) :
          PageGraph_new(Descriptor,
                        [k \in K |-> Edge(k, NodeId_from(1), NodeId_from(2))], ns, g)
    /\ overflow_checks \in BOOLEAN
    /\ NoCallYet /\ IdleFrame /\ IdleIds

Next ==
    \/ OutgoingEdges
    \/ IncomingEdges
    \/ OutgoingNeighbors
    \/ IncomingNeighbors
    \/ SourceNode
    \/ TargetNode
    \/ NewEdgeId

Spec == Init /\ [][Next]_vars

\* the queries alone, over the initial stores of at most MaxAdj adjacency entries and
\* edges of any endpoints
InitTraverse ==
    /\ \E es \in EdgeMapsOver(EdgeU), ns \in NodeMaps, g \in Graphs(MaxAdj) :
          PageGraph_new(Descriptor, es, ns, g)
    /\ overflow_checks = TRUE
    /\ NoCallYet /\ IdleFrame /\ IdleIds

NextTraverse ==
    \/ OutgoingEdges
    \/ IncomingEdges
    \/ OutgoingNeighbors
    \/ IncomingNeighbors
    \/ SourceNode
    \/ TargetNode

SpecTraverse == InitTraverse /\ [][NextTraverse]_vars

\* the edge ids of the allocator's initial stores: the first two ids the counter offers,
\* the last one, and a frame-scoped id whose numeric id is usize::MAX
AllocEdgeU ==
    {EdgeId_from(UsizeMax), EdgeId_from(UsizeMax - 1), EdgeId_from(0),
     EdgeId_copy_for_frame_id(EdgeId_from(UsizeMax), 1)}

InitAlloc ==
    /\ \E K \in SUBSET AllocEdgeU, ns \in NodeMaps :
          PageGraph_new(Descriptor,
                        [k \in K |-> Edge(k, NodeId_from(1), NodeId_from(2))], ns, <<>>)
    /\ overflow_checks \in BOOLEAN
    /\ NoCallYet /\ IdleFrame /\ IdleIds

NextAlloc == NewEdgeId

SpecAlloc == InitAlloc /\ [][NextAlloc]_vars

InitFrameId ==
    /\ PageGraph_new(Descriptor, <<>>, <<>>, <<>>)
    /\ overflow_checks = TRUE
    /\ NoCallYet /\ IdleIds
    /\ \/ \E v \in InputStrings : finput = [kind |-> "str", v |-> v]
       \/ \E f \in FrameIdValues : finput = [kind |-> "id", v |-> f]
    /\ fresult = [op |-> "none"]

NextFrameId ==
    \/ FrameIdFrom
    \/ FrameIdDisplay
    \/ FrameIdReparse

SpecFrameId == InitFrameId /\ [][NextFrameId]_vars

InitIds ==
    /\ PageGraph_new(Descriptor, <<>>, <<>>, <<>>)
    /\ overflow_checks = TRUE
    /\ NoCallYet /\ IdleFrame
    /\ idkeys = {} /\ idlog = {} /\ idcopy = None
    /\ idheld \in IdU

NextIds ==
    \/ InsertKey
    \/ CopyForFrameId

SpecIds == InitIds /\ [][NextIds]_vars

----------------------------------------------------------------------------
(* Claims about new_edge_id, under SpecAlloc *)

\* the ids the calls so far have returned, in call order
Returned == Flatten(SeqMap(calls, LAMBDA c : c.id))

\* the first n calls (all of them when fewer were made)
FirstCalls(n) == [i \in 1..(IF Len(calls) < n THEN Len(calls) ELSE n) |-> calls[i]]

PairwiseDistinct(s) == \A i, j \in 1..Len(s) : i # j => s[i] # s[j]

\* the counter after a call that read c and did not panic on the subtraction
CounterAfter(c) == IF c = 0 THEN UsizeMax ELSE c - 1

C9_Original ==
    /\ calls = <<>> => next_edge_id = UsizeMax
    /\ Len(calls) >= 1 => calls[1].id = Some(EdgeId_from(UsizeMax))
    /\ \A i \in 2..Len(calls) :
          calls[i].outcome = "returned"
             => /\ calls[i - 1].outcome = "returned"
                /\ calls[i].id = Some(EdgeId_from(calls[i - 1].id[1].item.id - 1))
    /\ \A i \in 1..Len(calls) :
          /\ i < Len(calls) => calls[i + 1].before <= calls[i].before
          /\ i = Len(calls) => next_edge_id <= calls[i].before

\* C9, amended: the counter starts at usize::MAX; a call that returns, returns the
\* unscoped EdgeId of the counter's value before it, so the k-th call, if it returns and
\* k <= usize::MAX + 1, returns usize::MAX - (k - 1); a call that fails the assertion
\* lowers the counter like one that returns; the counter never increases, except that a
\* build without overflow checks wraps it from 0 to usize::MAX (a build with them panics
\* on the subtraction and leaves it at 0).
C9_Amended ==
    /\ calls = <<>> => next_edge_id = UsizeMax
    /\ \A i \in 1..Len(calls) :
          LET c == calls[i]
              after == IF i < Len(calls) THEN calls[i + 1].before ELSE next_edge_id
          IN  /\ i = 1 => c.before = UsizeMax
              /\ c.outcome = "returned" => c.id = Some(EdgeId_from(c.before))
              /\ c.outcome = "returned" /\ i <= UsizeMax + 1
                    => c.id = Some(EdgeId_from(UsizeMax - (i - 1)))
              /\ c.outcome \in {"returned", "collision"}
                    => /\ after = CounterAfter(c.before)
                       /\ c.before = 0 => ~overflow_checks
              /\ c.outcome = "overflow" => c.before = 0 /\ after = 0 /\ overflow_checks
              /\ after <= c.before \/ (c.before = 0 /\ after = UsizeMax /\ ~overflow_checks)

\* C9's case: two calls returned with a failed assertion between them
C9_Witness ==
    \E i \in 1..Len(calls) :
        /\ i + 2 <= Len(calls)
        /\ calls[i].outcome = "returned"
        /\ calls[i + 1].outcome = "collision"
        /\ calls[i + 2].outcome = "returned"

\* C10, as stated: a call that fails the non-collision assertion has lowered the counter
\* by exactly one, its candidate id is never offered again by a later call, and the call
\* leaves the edge mapping unchanged.
C10_Original ==
    /\ \A i \in 1..Len(calls) :
          calls[i].outcome = "collision"
             => /\ (IF i < Len(calls) THEN calls[i + 1].before ELSE next_edge_id)
                      = calls[i].before - 1
                /\ \A j \in (i + 1)..Len(calls) : calls[j].before # calls[i].before
    /\ edges = built.edges

\* C10, amended: a call that fails the non-collision assertion has moved the counter on
\* by exactly one (from c to c - 1, and from 0 to usize::MAX in a build without overflow
\* checks); its candidate id is not offered again by any of the next usize::MAX calls
\* (only after the counter has gone all the way round); the call leaves the edge mapping
\* as PageGraph::new was given it.
C10_Amended ==
    /\ \A i \in 1..Len(calls) :
          calls[i].outcome = "collision"
             => /\ (IF i < Len(calls) THEN calls[i + 1].before ELSE next_edge_id)
                      = CounterAfter(calls[i].before)
                /\ \A j \in (i + 1)..Len(calls) :
                      j <= i + UsizeMax => calls[j].before # calls[i].before
    /\ edges = built.edges

\* C10's case: a call failed the assertion and a later call returned
C10_Witness ==
    \E i, j \in 1..Len(calls) :
        /\ i < j
        /\ calls[i].outcome = "collision"
        /\ calls[j].outcome = "returned"

----------------------------------------------------------------------------
(* Claims about the traversal queries, under SpecTraverse *)

EdgeQueries == {"outgoing_edges", "incoming_edges"}
NeighborQueries == {"outgoing_neighbors", "incoming_neighbors"}

\* the adjacency entries a query on node id n looks at, by their positions
EntriesOf(op, n) ==
    {i \in 1..Len(graph) :
        IF op \in {"outgoing_edges", "outgoing_neighbors"}
        THEN graph[i].a = n ELSE graph[i].b = n}

\* the number of positions of s holding x
Count(s, x) == Cardinality({i \in 1..Len(s) : s[i] = x})

\* s holds w as one contiguous run
HasRun(s, w) ==
    \E off \in 0..Len(s) :
        /\ off + Len(w) <= Len(s)
        /\ \A j \in 1..Len(w) : s[off + j] = w[j]

\* every edge id the adjacency lists that is a key of the edge mapping is filed under
\* its edge's own (source, target), and both are keys of the node mapping
WellFiled ==
    \A i \in 1..Len(graph) : \A j \in 1..Len(graph[i].w) :
        graph[i].w[j] \in DOMAIN edges
           => /\ edges[graph[i].w[j]].source = graph[i].a
              /\ edges[graph[i].w[j]].target = graph[i].b
              /\ graph[i].a \in DOMAIN nodes
              /\ graph[i].b \in DOMAIN nodes

\* source_node(e) == n, resp. target_node(e) == n, for every edge e the last query yielded
EndpointsAreArg ==
    /\ last.op = "outgoing_edges"
          => \A i \in 1..Len(last.out) :
                source_node(nodes, last.out[i]) = [out |-> <<last.arg>>, aborted |-> FALSE]
    /\ last.op = "incoming_edges"
          => \A i \in 1..Len(last.out) :
                target_node(nodes, last.out[i]) = [out |-> <<last.arg>>, aborted |-> FALSE]

\* C1, as stated: in every store PageGraph::new builds, each edge outgoing_edges(n)
\* yields has source_node(e) == n and each edge incoming_edges(n) yields has
\* target_node(e) == n.
C1_Original == EndpointsAreArg

\* C1, amended: the same, for the stores in which every edge id the adjacency structure
\* lists under a pair (a, b) that is a key of the edge mapping belongs to an edge with
\* source a and target b, a and b being keys of the node mapping.
C1_Amended == WellFiled => EndpointsAreArg

\* C1's case: a well-filed store with two adjacency entries, a query that yielded two edges
C1_Witness ==
    /\ WellFiled
    /\ Len(graph) = 2
    /\ last.op \in EdgeQueries
    /\ Len(last.out) = 2
    /\ last.out[1] # last.out[2]

\* what C2 says of one query on a pair's entry of k >= 2 edge ids: the edge queries hold
\* the entry's edges as one run in list order, the neighbor queries the other node once
ParallelYield(requireCompletion) ==
    last.op # "none" =>
       \A i \in EntriesOf(last.op, last.arg.id) :
          Len(graph[i].w) >= 2
             => /\ requireCompletion => ~last.aborted
                /\ ~last.aborted /\ last.op \in EdgeQueries
                      => HasRun(SeqMap(last.out, LAMBDA e : e.id), graph[i].w)
                /\ ~last.aborted /\ last.op = "outgoing_neighbors"
                      => Count(last.out, Node(graph[i].b)) = 1
                /\ ~last.aborted /\ last.op = "incoming_neighbors"
                      => Count(last.out, Node(graph[i].a)) = 1

\* C2, as stated: when the entry of (a, b) lists k >= 2 edge ids, outgoing_edges(a) and
\* incoming_edges(b) yield all k edges, each as often as listed and in list order, and
\* outgoing_neighbors(a) yields b, incoming_neighbors(b) yields a, exactly once.
C2_Original == ParallelYield(TRUE)

\* C2, amended: the same of every such query that runs to its end, that is, that meets
\* no edge id that is no key of the edge mapping and no neighbor that is no key of the
\* node mapping (a query that meets one aborts there).
C2_Amended == ParallelYield(FALSE)

\* C2's case: an edge query that ran to its end over an entry listing two edge ids
C2_Witness ==
    /\ last.op \in EdgeQueries
    /\ ~last.aborted
    /\ \E i \in EntriesOf(last.op, last.arg.id) : Len(graph[i].w) >= 2

\* the ids a query resolves, in order: edge ids for an edge query, neighbors otherwise
ResolvedIds(op, n) ==
    LET es == SelectSeq(graph, LAMBDA e :
                  IF op \in {"outgoing_edges", "outgoing_neighbors"} THEN e.a = n ELSE e.b = n)
    IN  IF op \in EdgeQueries
        THEN Flatten(SeqMap(es, LAMBDA e : e.w))
        ELSE SeqMap(es, LAMBDA e : IF op = "outgoing_neighbors" THEN e.b ELSE e.a)

\* the keys of the mapping a query resolves its ids in
KeysFor(op) == IF op \in EdgeQueries THEN DOMAIN edges ELSE DOMAIN nodes

\* C7: PageGraph::new takes inconsistent arguments as they are; source_node and
\* target_node abort exactly when the edge's source, resp. target, is no key of the node
\* mapping; an edge or neighbor query aborts exactly when it resolves an id that is no
\* key of its mapping; what a query yields are values of keys only: the ids before the
\* first dangling one.
C7_DanglingAborts ==
    /\ last.op = "source_node"
          => /\ last.aborted <=> last.arg.source \notin DOMAIN nodes
             /\ last.out = IF last.aborted THEN <<>> ELSE <<nodes[last.arg.source]>>
    /\ last.op = "target_node"
          => /\ last.aborted <=> last.arg.target \notin DOMAIN nodes
             /\ last.out = IF last.aborted THEN <<>> ELSE <<nodes[last.arg.target]>>
    /\ last.op \in EdgeQueries \cup NeighborQueries
          => LET ids == ResolvedIds(last.op, last.arg.id)
                 keys == KeysFor(last.op)
                 m == IF last.op \in EdgeQueries THEN edges ELSE nodes
             IN  /\ last.aborted <=> \E j \in 1..Len(ids) : ids[j] \notin keys
                 /\ Len(last.out) <= Len(ids)
                 /\ \A j \in 1..Len(last.out) : ids[j] \in keys /\ last.out[j] = m[ids[j]]
                 /\ Len(last.out) < Len(ids) => ids[Len(last.out) + 1] \notin keys

\* C7's case: an edge query that yielded an edge and then aborted on a dangling edge id
C7_Witness ==
    /\ last.op \in EdgeQueries
    /\ last.aborted
    /\ Len(last.out) >= 1

----------------------------------------------------------------------------
(* Claim about what the operations change, under Spec *)

\* the last query, made again on the store as it is now
Requery ==
    IF last.op = "outgoing_edges" THEN edges_iter_directed(graph, edges, last.arg, "Outgoing")
    ELSE IF last.op = "incoming_edges" THEN edges_iter_directed(graph, edges, last.arg, "Incoming")
    ELSE IF last.op = "outgoing_neighbors" THEN nodes_iter_directed(graph, nodes, last.arg, "Outgoing")
    ELSE IF last.op = "incoming_neighbors" THEN nodes_iter_directed(graph, nodes, last.arg, "Incoming")
    ELSE IF last.op = "source_node" THEN source_node(nodes, last.arg)
    ELSE target_node(nodes, last.arg)

\* C8: in every state reached by queries and new_edge_id calls, the descriptor, the node
\* mapping, the edge mapping and the adjacency structure are what PageGraph::new was
\* given (no id allocated is a key of the edge mapping); the edge-id counter is where
\* the new_edge_id calls alone have left it, whatever queries came between; and the
\* last query, made again after any number of allocations, gives the same result.
C8_FrameEffect ==
    /\ desc = built.desc
    /\ nodes = built.nodes
    /\ edges = built.edges
    /\ graph = built.graph
    /\ next_node_id = UsizeMax
    /\ next_edge_id =
          IF calls = <<>> THEN UsizeMax
          ELSE IF calls[Len(calls)].outcome = "overflow" THEN calls[Len(calls)].before
          ELSE CounterAfter(calls[Len(calls)].before)
    /\ \A i \in 1..Len(calls) :
          /\ calls[i].before = IF i = 1 THEN UsizeMax
                               ELSE IF calls[i - 1].outcome = "overflow" THEN calls[i - 1].before
                               ELSE CounterAfter(calls[i - 1].before)
          /\ calls[i].outcome = "returned" => calls[i].id[1] \notin DOMAIN edges
    /\ last.op # "none" => Requery = [out |-> last.out, aborted |-> last.aborted]

\* C8's case: a query was made, two ids were allocated, and the adjacency structure lists
\* an edge id that is no key of the edge mapping
C8_Witness ==
    /\ last.op \in EdgeQueries
    /\ last.aborted
    /\ Len(Returned) >= 2

----------------------------------------------------------------------------
(* Claims about FrameId, under SpecFrameId *)

AllHex(v) == \A i \in 1..Len(v) : IsHexDigit(v[i])

\* C4: Display writes exactly HexLen (the code: 32) upper-case hexadecimal digits, zero
\* padded; FrameId::from of what Display wrote, as it is or lower-cased, is the FrameId
\* that was formatted; a string of HexLen hexadecimal digits parses to the same FrameId
\* as its upper-case and its lower-case spelling.
C4_RoundTrip ==
    /\ fresult.op = "fmt"
          => /\ Len(fresult.out) = HexLen
             /\ \A i \in 1..Len(fresult.out) : IsUpperHexDigit(fresult.out[i])
    /\ fresult.op = "reparse"
          => /\ ~fresult.aborted
             /\ fresult.value = Some(finput.v)
    /\ fresult.op = "from" /\ Len(fresult.arg) = HexLen /\ AllHex(fresult.arg)
          => /\ ~fresult.aborted
             /\ FrameId_from(SeqMap(fresult.arg, to_ascii_uppercase)).value = fresult.value
             /\ FrameId_from(SeqMap(fresult.arg, to_ascii_lowercase)).value = fresult.value

\* C4's case: a FrameId whose digits need padding and are letters, formatted, the output
\* lower-cased and parsed again
C4_Witness ==
    /\ fresult.op = "reparse"
    /\ finput.v = 10
    /\ fresult.arg = <<"0", "a">> \o [i \in 1..(HexLen - 2) |-> "0"]
          \/ fresult.arg = [i \in 1..(HexLen - 1) |-> "0"] \o <<"a">>

----------------------------------------------------------------------------
(* Claim about the ids, under SpecIds *)

\* C6: two ids of equal numeric id and different frame scope compare unequal, and both
\* are keys of a mapping they were inserted into; copy_for_frame_id(f) gives an id of the
\* same type and numeric id scoped to Some(f), and the id it was called on is as before.
C6_FrameScopedIds ==
    /\ \A a, b \in idlog :
          a.item.id = b.item.id /\ a.item.frame_id # b.item.frame_id
             => /\ ~Id_eq(a, b)
                /\ ~GraphItemId_eq(a.item, b.item)
                /\ a \in idkeys /\ b \in idkeys
    /\ idcopy # None
          => /\ idcopy[1].id.tag = idcopy[1].of.tag
             /\ idcopy[1].id.item.id = idcopy[1].of.item.id
             /\ idcopy[1].id.item.frame_id = Some(idcopy[1].frame)
             /\ idheld = idcopy[1].of

\* C6's case: the mapping was given an unscoped id and two scopings of the same numeric
\* id, and an id scoped to one frame was re-scoped to another
C6_Witness ==
    /\ \E a, b, c \in idlog :
          /\ a.item.id = b.item.id /\ b.item.id = c.item.id
          /\ a.item.frame_id = None
          /\ b.item.frame_id # None /\ c.item.frame_id # None
          /\ b.item.frame_id # c.item.frame_id
    /\ idcopy # None
    /\ idheld.item.frame_id # None
    /\ idheld.item.frame_id # Some(idcopy[1].frame)

====
